---------------------------- MODULE Spec2Model ----------------------------
(***************************************************************************)
(* Model of package edit (edit.go): a Buffer holding the original data     *)
(* (as a byte slice or as a string) and a queue of edits, the three        *)
(* appending calls Insert / Delete / Replace, and WriteTo with its two     *)
(* wrappers Bytes and String.                                              *)
(*                                                                         *)
(* Byte strings are sequences of byte values.  A Go offset k is the        *)
(* position k+1 of a sequence, so old[i:j] is SubSeq(old, i+1, j).         *)
(***************************************************************************)
EXTENDS Integers, Sequences, FiniteSets, Bags, TLC

VARIABLES
    old,       \* b.old: Nil, or <<data>> for a byte slice holding data
    str,       \* b.str: the data as a string, used only when old is Nil
    q,         \* b.q: the queue of edits, in its current order
    appended,  \* history: the edits appended so far, in call order
    last,      \* the last call on the buffer: its arguments and what it returned
    runs,      \* history: WriteTo runs since the last edit was appended, up to MaxRuns
    earlier    \* history: WriteTo has run before the last edit was appended

vars == <<old, str, q, appended, last, runs, earlier>>

(***************************************************************************)
(* Bounds of the model.                                                    *)
(***************************************************************************)
MaxLen == 2         \* Spec: longest original data
MaxEdits == 2       \* Spec: most edits queued
MaxLenTie == 1      \* SpecTie: longest original data
MaxEditsTie == 3    \* SpecTie: most edits queued
MaxLenDel == 3      \* SpecDel: longest original data
MaxEditsDel == 2    \* SpecDel: most edits queued
MaxLenMix == 3      \* SpecMix: longest original data
MaxEditsMix == 4    \* SpecMix: most edits queued
MaxLenArgs == 1     \* SpecArgs: longest original data
MaxEditsArgs == 1   \* SpecArgs: most edits queued
MaxLenSink == 2     \* SpecSink: longest original data
MaxEditsSink == 1   \* SpecSink: most edits queued
MaxShort == 1       \* SpecSink: most bytes a failing write reports
MaxRuns == 2        \* runs counts no further than this

Nil == <<>>
NoErr == "nil"
Empty == <<>>

\* The data "0123...": the byte at offset k is the digit k.
Digits(n) == [i \in 1..n |-> 47 + i]
TextA == <<97>>
TextB == <<98>>

Min(a, b) == IF a < b THEN a ELSE b

(***************************************************************************)
(* type edit, edits.Less, sort.Stable                                      *)
(***************************************************************************)
edit(start, end, new) == [start |-> start, end |-> end, new |-> new]

\* A mutant of Less: the tie on start is not broken by end.
LessStartOnly(a, b) == a.start < b.start

\* A mutant of Less: ties on (start, end) compare as less.
LessOrEqual(a, b) ==
    IF a.start # b.start THEN a.start < b.start ELSE a.end <= b.end

\* A mutant of Less: the tie on start is broken by end, descending.
LessEndDescending(a, b) ==
    IF a.start # b.start THEN a.start < b.start ELSE a.end > b.end

Less(a, b) ==
    IF a.start # b.start THEN a.start < b.start ELSE a.end < b.end

\* A mutant of InsertStable: the new element moves in front of its equals.
RECURSIVE InsertBeforeTies(_, _)
InsertBeforeTies(s, e) ==
    IF s # <<>> /\ ~Less(s[Len(s)], e)
    THEN Append(InsertBeforeTies(SubSeq(s, 1, Len(s) - 1), e), s[Len(s)])
    ELSE Append(s, e)

\* One pass of the insertion sort sort.Stable runs on a short slice: e moves
\* left while it is Less than its left neighbour.
RECURSIVE InsertStable(_, _)
InsertStable(s, e) ==
    IF s # <<>> /\ Less(e, s[Len(s)])
    THEN Append(InsertStable(SubSeq(s, 1, Len(s) - 1), e), s[Len(s)])
    ELSE Append(s, e)

\* A mutant of SortStable: the sort empties the queue.
SortDrain(s) == <<>>

RECURSIVE SortStable(_)
SortStable(s) ==
    IF s = <<>> THEN <<>>
    ELSE InsertStable(SortStable(SubSeq(s, 1, Len(s) - 1)), s[Len(s)])

(***************************************************************************)
(* Buffer.contentsLen and the data the buffer reads                        *)
(***************************************************************************)
contentsLen(b_old, b_str) == IF b_old # Nil THEN Len(b_old[1]) ELSE Len(b_str)

\* b.old[i:j] when old is not nil, b.str[i:j] otherwise (WriteTo's two arms).
Slice(b_old, b_str, i, j) ==
    IF b_old # Nil THEN SubSeq(b_old[1], i + 1, j) ELSE SubSeq(b_str, i + 1, j)

(***************************************************************************)
(* The sink of WriteTo.  An io.Writer is the caller's: w says which Write  *)
(* call fails (failAt, 0 for none), how many bytes the failing call        *)
(* reports at most (short) and the error it returns (err).                 *)
(***************************************************************************)
Sink(failAt, short, err) == [failAt |-> failAt, short |-> short, err |-> err]

\* bytes.Buffer and strings.Builder, the sinks of Bytes and String, never fail.
Builder == Sink(0, 0, NoErr)

\* w.Write(p) as the k-th call on w: the count and the error it returns.
SinkWrite(w, k, p) ==
    IF w.failAt = k
    THEN [n |-> Min(w.short, Len(p)), err |-> w.err]
    ELSE [n |-> Len(p), err |-> NoErr]

\* What the sink holds after the calls logged in ws.
RECURSIVE SinkData(_)
SinkData(ws) ==
    IF ws = <<>> THEN <<>>
    ELSE SubSeq(Head(ws).p, 1, Head(ws).n) \o SinkData(Tail(ws))

(***************************************************************************)
(* Buffer.WriteTo                                                          *)
(***************************************************************************)
\* total += int64(n)
AddTotal(total, r) == total + r.n

\* The closures write and writeStr: one call on the sink, counted in total.
\* st.writes logs the calls the sink has received.
write(st, w, p) ==
    LET r == SinkWrite(w, Len(st.writes) + 1, p)
    IN  [st EXCEPT !.total = AddTotal(@, r),
                   !.err = r.err,
                   !.writes = Append(@, [p |-> p, n |-> r.n, err |-> r.err])]

\* A mutant of Failed: the error of a write is not looked at.
FailedNever(st) == FALSE

\* if err != nil { return total, err }
Failed(st) == st.err # NoErr

\* if start < offset
Overlapping(start, offset) == start < offset

\* if e.new != "" || e0.new != "" { panic(...) }
IllegalOverlap(e, e0) == e.new # Empty \/ e0.new # Empty

\* A mutant of Subsumed: no delete is ever ignored.
SubsumedNever(e, e0) == FALSE

\* if e.end < e0.end { continue }
Subsumed(e, e0) == e.end < e0.end

\* for i, e := range b.q { ... }, from the i-th edit of the sorted queue sq on.
\* The result has status "run" when the loop ran to its end.
RECURSIVE RangeLoop(_, _, _, _, _, _)
RangeLoop(b_old, b_str, sq, i, st, w) ==
    IF i > Len(sq) THEN st
    ELSE
      LET e == sq[i]
          over == Overlapping(e.start, st.offset)
      IN  IF over /\ IllegalOverlap(e, sq[i - 1])
          THEN [st EXCEPT !.status = "panic"]
          ELSE IF over /\ Subsumed(e, sq[i - 1])
          THEN RangeLoop(b_old, b_str, sq, i + 1, st, w)
          ELSE
            LET start == IF over THEN st.offset ELSE e.start
                s1 == write(st, w, Slice(b_old, b_str, st.offset, start))
                s2 == write([s1 EXCEPT !.offset = e.end], w, e.new)
            IN  IF Failed(s1) THEN [s1 EXCEPT !.status = "err"]
                ELSE IF Failed(s2) THEN [s2 EXCEPT !.status = "err"]
                ELSE RangeLoop(b_old, b_str, sq, i + 1, s2, w)

\* WriteTo on the sorted queue sq: the loop, then the tail of the data.
WriteToSorted(b_old, b_str, sq, w) ==
    LET st0 == [offset |-> 0, total |-> 0, err |-> NoErr, writes |-> <<>>,
                status |-> "run"]
        st == RangeLoop(b_old, b_str, sq, 1, st0, w)
        s3 == write(st, w, Slice(b_old, b_str, st.offset, contentsLen(b_old, b_str)))
    IN  IF st.status # "run" THEN st
        ELSE [s3 EXCEPT !.status = IF s3.err # NoErr THEN "err" ELSE "ok"]

\* What a call of WriteTo (op names the entry point) leaves in last.
Returned(op, st) ==
    [op |-> op, start |-> 0, end |-> 0, new |-> Empty, status |-> st.status,
     n |-> st.total, err |-> st.err, out |-> SinkData(st.writes),
     writes |-> st.writes]

\* What an appending call leaves in last.
Called(op, start, end, new, status) ==
    [op |-> op, start |-> start, end |-> end, new |-> new, status |-> status,
     n |-> 0, err |-> NoErr, out |-> Empty, writes |-> <<>>]

(***************************************************************************)
(* The calls on a Buffer                                                   *)
(***************************************************************************)
\* A mutant of ValidPos: the end of the data is not a position.
ValidPosBeforeEnd(pos, n) == ~(pos < 0 \/ pos >= n)

\* Insert's check: if pos < 0 || pos > b.contentsLen() { panic }
ValidPos(pos, n) == ~(pos < 0 \/ pos > n)

\* The check of Delete and Replace:
\* if end < start || start < 0 || end > b.contentsLen() { panic }
ValidRange(start, end, n) == ~(end < start \/ start < 0 \/ end > n)

\* NewBuffer(data) with data not nil, and NewBufferString(data); NewBuffer(nil)
\* leaves the same buffer as NewBufferString("").
NewBuffer(data) ==
    /\ old = <<data>>
    /\ str = Empty
    /\ q = <<>>
    /\ appended = <<>>
    /\ runs = 0
    /\ earlier = FALSE
    /\ last = Called("NewBuffer", 0, 0, Empty, "ok")

NewBufferString(data) ==
    /\ old = Nil
    /\ str = data
    /\ q = <<>>
    /\ appended = <<>>
    /\ runs = 0
    /\ earlier = FALSE
    /\ last = Called("NewBufferString", 0, 0, Empty, "ok")

Insert(pos, new) ==
    /\ IF ValidPos(pos, contentsLen(old, str))
       THEN /\ q' = Append(q, edit(pos, pos, new))
            /\ appended' = Append(appended, edit(pos, pos, new))
            /\ runs' = 0
            /\ earlier' = (earlier \/ runs > 0)
            /\ last' = Called("Insert", pos, pos, new, "ok")
       ELSE /\ last' = Called("Insert", pos, pos, new, "panic")
            /\ UNCHANGED <<q, appended, runs, earlier>>
    /\ UNCHANGED <<old, str>>

Delete(start, end) ==
    /\ IF ValidRange(start, end, contentsLen(old, str))
       THEN /\ q' = Append(q, edit(start, end, Empty))
            /\ appended' = Append(appended, edit(start, end, Empty))
            /\ runs' = 0
            /\ earlier' = (earlier \/ runs > 0)
            /\ last' = Called("Delete", start, end, Empty, "ok")
       ELSE /\ last' = Called("Delete", start, end, Empty, "panic")
            /\ UNCHANGED <<q, appended, runs, earlier>>
    /\ UNCHANGED <<old, str>>

Replace(start, end, new) ==
    /\ IF ValidRange(start, end, contentsLen(old, str))
       THEN /\ q' = Append(q, edit(start, end, new))
            /\ appended' = Append(appended, edit(start, end, new))
            /\ runs' = 0
            /\ earlier' = (earlier \/ runs > 0)
            /\ last' = Called("Replace", start, end, new, "ok")
       ELSE /\ last' = Called("Replace", start, end, new, "panic")
            /\ UNCHANGED <<q, appended, runs, earlier>>
    /\ UNCHANGED <<old, str>>

\* WriteTo(w): the queue is sorted in place, then written out.
WriteTo(w) ==
    /\ q' = SortStable(q)
    /\ last' = Returned("WriteTo", WriteToSorted(old, str, q', w))
    /\ runs' = Min(runs + 1, MaxRuns)
    /\ UNCHANGED <<old, str, appended, earlier>>

\* Bytes(): WriteTo on a new bytes.Buffer, whose bytes are returned.
Bytes ==
    /\ q' = SortStable(q)
    /\ last' = Returned("Bytes", WriteToSorted(old, str, q', Builder))
    /\ runs' = Min(runs + 1, MaxRuns)
    /\ UNCHANGED <<old, str, appended, earlier>>

\* String(): WriteTo on a new strings.Builder, whose string is returned.
String ==
    /\ q' = SortStable(q)
    /\ last' = Returned("String", WriteToSorted(old, str, q', Builder))
    /\ runs' = Min(runs + 1, MaxRuns)
    /\ UNCHANGED <<old, str, appended, earlier>>

(***************************************************************************)
(* The buffers the specifications start from: the data "0123..." of up to  *)
(* maxLen bytes, held as a byte slice or as a string.                      *)
(***************************************************************************)
Buffers(maxLen) ==
    \E n \in 0..maxLen : NewBuffer(Digits(n)) \/ NewBufferString(Digits(n))

(***************************************************************************)
(* Spec: the three appending calls with in-range arguments and an empty    *)
(* or a one-byte text, written out by Bytes and String.                    *)
(***************************************************************************)
Texts == {Empty, TextA}

Init == Buffers(MaxLen)

Next ==
    \/ /\ Len(q) < MaxEdits
       /\ \E pos \in 0..contentsLen(old, str), new \in Texts : Insert(pos, new)
    \/ /\ Len(q) < MaxEdits
       /\ \E start \in 0..contentsLen(old, str) :
            \E end \in start..contentsLen(old, str) : Delete(start, end)
    \/ /\ Len(q) < MaxEdits
       /\ \E start \in 0..contentsLen(old, str) :
            \E end \in start..contentsLen(old, str) :
              \E new \in Texts : Replace(start, end, new)
    \/ Bytes
    \/ String

Spec == Init /\ [][Next]_vars

(***************************************************************************)
(* SpecTie: insertions of two different texts and replacements of at       *)
(* least one byte, so that the order of edits at one offset shows in the   *)
(* output.                                                                 *)
(***************************************************************************)
InitTie == Buffers(MaxLenTie)

NextTie ==
    \/ /\ Len(q) < MaxEditsTie
       /\ \E pos \in 0..contentsLen(old, str), new \in {TextA, TextB} :
            Insert(pos, new)
    \/ /\ Len(q) < MaxEditsTie
       /\ \E start \in 0..contentsLen(old, str) :
            \E end \in (start + 1)..contentsLen(old, str) :
              Replace(start, end, TextA)
    \/ Bytes
    \/ String

SpecTie == InitTie /\ [][NextTie]_vars

(***************************************************************************)
(* SpecDel: deletes only, empty ones included.                             *)
(***************************************************************************)
InitDel == Buffers(MaxLenDel)

NextDel ==
    \/ /\ Len(q) < MaxEditsDel
       /\ \E start \in 0..contentsLen(old, str) :
            \E end \in start..contentsLen(old, str) : Delete(start, end)
    \/ Bytes
    \/ String

SpecDel == InitDel /\ [][NextDel]_vars

(***************************************************************************)
(* SpecMix: deletes of at least one byte and insertions of one text, up to *)
(* MaxEditsMix edits.                                                      *)
(***************************************************************************)
InitMix == Buffers(MaxLenMix)

NextMix ==
    \/ /\ Len(q) < MaxEditsMix
       /\ \E pos \in 0..contentsLen(old, str) : Insert(pos, TextA)
    \/ /\ Len(q) < MaxEditsMix
       /\ \E start \in 0..contentsLen(old, str) :
            \E end \in (start + 1)..contentsLen(old, str) : Delete(start, end)
    \/ String

SpecMix == InitMix /\ [][NextMix]_vars

(***************************************************************************)
(* SpecArgs: the three appending calls with arguments in and out of range. *)
(* MaxEditsArgs bounds the calls that append, not the ones that panic.     *)
(***************************************************************************)
InitArgs == Buffers(MaxLenArgs)

NextArgs ==
    \/ \E pos \in -1..(contentsLen(old, str) + 1), new \in Texts :
         /\ Len(q) < MaxEditsArgs \/ ~ValidPos(pos, contentsLen(old, str))
         /\ Insert(pos, new)
    \/ \E start, end \in -1..(contentsLen(old, str) + 1) :
         /\ Len(q) < MaxEditsArgs \/ ~ValidRange(start, end, contentsLen(old, str))
         /\ Delete(start, end)
    \/ \E start, end \in -1..(contentsLen(old, str) + 1), new \in Texts :
         /\ Len(q) < MaxEditsArgs \/ ~ValidRange(start, end, contentsLen(old, str))
         /\ Replace(start, end, new)
    \/ Bytes
    \/ String

SpecArgs == InitArgs /\ [][NextArgs]_vars

(***************************************************************************)
(* SpecSink: WriteTo on sinks that fail at any one write, with either of   *)
(* two errors, after reporting up to MaxShort bytes.                       *)
(***************************************************************************)
Errors == {"EIO", "ENOSPC"}

\* WriteTo makes two writes for an edit and one for the tail.
Sinks ==
    {Builder} \cup
    {Sink(k, m, x) : k \in 1..(2 * MaxEditsSink + 1), m \in 0..MaxShort, x \in Errors}

InitSink == Buffers(MaxLenSink)

NextSink ==
    \/ /\ Len(q) < MaxEditsSink
       /\ \E pos \in 0..contentsLen(old, str) : Insert(pos, TextA)
    \/ /\ Len(q) < MaxEditsSink
       /\ \E start \in 0..contentsLen(old, str) :
            \E end \in (start + 1)..contentsLen(old, str) : Delete(start, end)
    \/ \E w \in Sinks : WriteTo(w)

SpecSink == InitSink /\ [][NextSink]_vars

(***************************************************************************)
(* Vocabulary of the properties                                            *)
(***************************************************************************)
Content == IF old # Nil THEN old[1] ELSE str

Max(a, b) == IF a < b THEN b ELSE a

RECURSIVE Concat(_)
Concat(ss) == IF ss = <<>> THEN <<>> ELSE Head(ss) \o Concat(Tail(ss))

RECURSIVE SumN(_)
SumN(ws) == IF ws = <<>> THEN 0 ELSE Head(ws).n + SumN(Tail(ws))

IsWriteTo(l) == l.op \in {"WriteTo", "Bytes", "String"}

IsAppend(l) == l.op \in {"Insert", "Delete", "Replace"}

\* Two ranges overlap.
Overlap(r1, r2) == r1.start < r2.end /\ r2.start < r1.end

NoOverlap(s) ==
    \A i, j \in 1..Len(s) : i # j => ~Overlap(s[i], s[j])

PureDeletes(s) == \A i \in 1..Len(s) : s[i].new = Empty

\* The texts of the edits of s that P holds of, in the order of s.
TextsOf(s, P(_)) ==
    LET sel == SelectSeq(s, P) IN Concat([i \in 1..Len(sel) |-> sel[i].new])

Covered(s, k) == \E i \in 1..Len(s) : s[i].start <= k /\ k < s[i].end

\* The data with the edits of s applied, offset by offset: at offset k come
\* the texts inserted at k, then the text of a replacement starting at k,
\* then the byte at k unless an edit covers it.
Applied(data, s) ==
    Concat([k1 \in 1..(Len(data) + 1) |->
        LET k == k1 - 1
            At(e) == e.start = k /\ e.end = k
            From(e) == e.start = k /\ e.end > k
        IN  TextsOf(s, At) \o TextsOf(s, From) \o
            (IF k < Len(data) /\ ~Covered(s, k) THEN <<data[k1]>> ELSE <<>>)])

\* The data without the bytes in [from, to).
Without(data, from, to) ==
    SubSeq(data, 1, from) \o SubSeq(data, to + 1, Len(data))

IsInfix(t, s) ==
    \E i \in 0..(Len(s) - Len(t)) : SubSeq(s, i + 1, i + Len(t)) = t

BagOfSeq(s) ==
    [e \in {s[i] : i \in 1..Len(s)} |-> Cardinality({i \in 1..Len(s) : s[i] = e})]

(***************************************************************************)
(* C1: when no two queued edits overlap, WriteTo does not panic and the    *)
(* sink holds the data with every [start,end) replaced by its text, the    *)
(* bytes outside all ranges kept once each; the count returned is the      *)
(* number of bytes written.                                                *)
(***************************************************************************)
C1_NonOverlappingApplied ==
    (IsWriteTo(last) /\ NoOverlap(appended)) =>
        /\ last.status = "ok"
        /\ last.out = Applied(Content, appended)
        /\ last.n = Len(last.out)

C1_Witness ==
    /\ IsWriteTo(last)
    /\ NoOverlap(appended)
    /\ Len(appended) = 2
    /\ q # appended
    /\ \E i, j \in 1..2 :
         /\ appended[i].end > appended[i].start /\ appended[i].new # Empty
         /\ appended[j].end = appended[j].start /\ appended[j].new # Empty
    /\ last.status = "ok"

(***************************************************************************)
(* C2 (as claimed): whenever two queued edits overlap and one of the two   *)
(* has a non-empty text, WriteTo panics.                                   *)
(***************************************************************************)
C2_OverlapWithTextPanics ==
    (/\ IsWriteTo(last)
     /\ \E i, j \in 1..Len(appended) :
          /\ i # j
          /\ Overlap(appended[i], appended[j])
          /\ (appended[i].new # Empty \/ appended[j].new # Empty))
    => last.status = "panic"

(***************************************************************************)
(* C3 (as claimed): when every queued edit is a pure deletion, WriteTo     *)
(* does not panic and the sink holds the data without the bytes of the     *)
(* union of the deleted ranges.                                            *)
(***************************************************************************)
C3_DeletesRemoveUnion ==
    (IsWriteTo(last) /\ PureDeletes(appended)) =>
        /\ last.status = "ok"
        /\ last.out = Applied(Content, appended)

(***************************************************************************)
(* C4: with exactly two pure deletions queued that overlap or abut, in     *)
(* either order, the sink holds the data without [min start, max end).     *)
(***************************************************************************)
C4_TwoDeletesMerge ==
    (/\ IsWriteTo(last)
     /\ Len(appended) = 2
     /\ PureDeletes(appended)
     /\ \/ Overlap(appended[1], appended[2])
        \/ appended[1].end = appended[2].start
        \/ appended[2].end = appended[1].start)
    => /\ last.status = "ok"
       /\ last.out = Without(Content,
                             Min(appended[1].start, appended[2].start),
                             Max(appended[1].end, appended[2].end))

C4_Witness ==
    /\ IsWriteTo(last)
    /\ last.status = "ok"
    /\ Len(appended) = 2
    /\ PureDeletes(appended)
    /\ appended[2].start < appended[1].start
    /\ appended[1].start < appended[2].end
    /\ appended[2].end < appended[1].end

(***************************************************************************)
(* C5: with Insert(p, t) and Replace(p, e, r), e > p, queued in either     *)
(* order, the sink holds data[0:p] t r data[e:].                           *)
(***************************************************************************)
C5_InsertBeforeReplace ==
    \A i, j \in 1..Len(appended) :
        (/\ IsWriteTo(last)
         /\ Len(appended) = 2
         /\ i # j
         /\ appended[i].start = appended[i].end
         /\ appended[j].start = appended[i].start
         /\ appended[j].end > appended[j].start)
        => /\ last.status = "ok"
           /\ last.out = SubSeq(Content, 1, appended[i].start)
                           \o appended[i].new \o appended[j].new
                           \o SubSeq(Content, appended[j].end + 1, Len(Content))

C5_Witness ==
    /\ IsWriteTo(last)
    /\ last.status = "ok"
    /\ Len(appended) = 2
    /\ appended[1].end > appended[1].start
    /\ appended[2].start = appended[1].start
    /\ appended[2].end = appended[2].start
    /\ appended[1].new = TextA
    /\ appended[2].new = TextB

(***************************************************************************)
(* C6: edits with the same (start, end) stay in the order of their         *)
(* appends, and the texts inserted at one position reach the sink          *)
(* together, in the order of their appends.                                *)
(***************************************************************************)
C6_SameKeyAppendOrder ==
    /\ \A s, e \in 0..Len(Content) :
         LET Key(x) == x.start = s /\ x.end = e
         IN  SelectSeq(q, Key) = SelectSeq(appended, Key)
    /\ (IsWriteTo(last) /\ last.status = "ok") =>
         \A k \in 0..Len(Content) :
           LET At(x) == x.start = k /\ x.end = k
           IN  IsInfix(TextsOf(appended, At), last.out)

C6_Witness ==
    /\ IsWriteTo(last)
    /\ last.status = "ok"
    /\ Len(appended) = 3
    /\ appended[1] = edit(appended[1].start, appended[1].start, TextB)
    /\ appended[3] = edit(appended[1].start, appended[1].start, TextA)
    /\ appended[2].start < appended[1].start
    /\ appended[2].new # Empty

(***************************************************************************)
(* C7: a WriteTo, Bytes or String that follows a successful one with no    *)
(* append in between does not panic and returns the same bytes and the     *)
(* same count.                                                             *)
(***************************************************************************)
C7_Step ==
    (IsWriteTo(last) /\ last.status = "ok" /\ IsWriteTo(last')) =>
        (/\ last'.status # "panic"
         /\ last'.status = "ok" => (last'.out = last.out /\ last'.n = last.n))

C7_Idempotent == [][C7_Step]_vars

C7_Witness ==
    /\ runs = 2
    /\ last.op = "Bytes"
    /\ last.status = "ok"
    /\ q # appended
    /\ last.out # Content

(***************************************************************************)
(* C8: Insert panics iff pos < 0 or pos > len(data); Delete and Replace    *)
(* panic iff end < start or start < 0 or end > len(data).  A call that     *)
(* panics leaves the queue as it was, one that returns appends its one     *)
(* edit, and every queued edit has 0 <= start <= end <= len(data).         *)
(***************************************************************************)
C8_Step ==
    IsAppend(last') =>
        LET c == last'
            n == Len(Content)
            bad == IF c.op = "Insert"
                   THEN c.start < 0 \/ c.start > n
                   ELSE c.end < c.start \/ c.start < 0 \/ c.end > n
        IN  /\ (c.status = "panic") <=> bad
            /\ c.status = "panic" => q' = q
            /\ c.status # "panic" =>
                 q' = q \o <<[start |-> c.start, end |-> c.end, new |-> c.new]>>

C8_InRange ==
    \A i \in 1..Len(q) :
        0 <= q[i].start /\ q[i].start <= q[i].end /\ q[i].end <= Len(Content)

C8_ValidatedAtAppend == [][C8_Step]_vars /\ []C8_InRange

C8_Witness ==
    /\ last.op = "Insert"
    /\ last.status = "panic"
    /\ last.start = Len(Content) + 1
    /\ Len(q) = 1
    /\ q[1].end = Len(Content)

(***************************************************************************)
(* C9: when a write to the sink fails, it is the last write WriteTo makes, *)
(* and WriteTo returns its error with the sum of the counts of all the     *)
(* writes made, the failing one included.                                  *)
(***************************************************************************)
C9_SinkFailureAborts ==
    (/\ last.op = "WriteTo"
     /\ \E i \in 1..Len(last.writes) : last.writes[i].err # NoErr)
    => LET k == Len(last.writes)
       IN  /\ \A i \in 1..(k - 1) : last.writes[i].err = NoErr
           /\ last.err = last.writes[k].err
           /\ last.n = SumN(last.writes)
           /\ last.status = "err"

C9_Witness ==
    /\ last.op = "WriteTo"
    /\ last.status = "err"
    /\ Len(q) = 1
    /\ Len(last.writes) = 3
    /\ last.writes[2].n > 0
    /\ last.writes[3].n > 0
    /\ last.writes[3].n < Len(last.writes[3].p)
    /\ last.err = "ENOSPC"

(***************************************************************************)
(* C10: WriteTo changes neither the data nor the edits queued, only their  *)
(* order, and what it returns is what WriteTo returns on a new buffer      *)
(* over the same data after the same appends.                              *)
(***************************************************************************)
C10_Step ==
    /\ old' = old
    /\ str' = str
    /\ IsWriteTo(last') => BagOfSeq(q') = BagOfSeq(q)

C10_AsFresh ==
    /\ BagOfSeq(q) = BagOfSeq(appended)
    /\ IsWriteTo(last) =>
         last = Returned(last.op,
                         WriteToSorted(old, str, SortStable(appended), Builder))

C10_PureRead == [][C10_Step]_vars /\ []C10_AsFresh

C10_Witness ==
    /\ earlier
    /\ runs = 1
    /\ last.op = "String"
    /\ last.status = "ok"
    /\ Len(appended) = 3
    /\ SubSeq(q, 1, 2) # SubSeq(appended, 1, 2)
    /\ last.out # Content

=============================================================================
